---- MODULE Spec2Model ----
(***************************************************************************)
(* A model of the rusty-gemini client library: the GenerativeModel        *)
(* transport (request building, one HTTP POST, reply parsing), the error  *)
(* mapping, the streaming decoder and the ChatSession.                    *)
(*                                                                         *)
(* Every public async method takes &self or &mut self for its whole   *)
(* duration and the library shares no mutable state between calls, so     *)
(* each call is one atomic action; what the server answers is an input of *)
(* the action.  A panic aborts the caller: no action follows it.          *)
(***************************************************************************)
EXTENDS Integers, Sequences, FiniteSets, TLC

(***************************************************************************)
(* Bounds of the model.                                                    *)
(***************************************************************************)
\* steps (calls and chunk deliveries) of one behaviour of the whole library
MaxSteps == 2
\* calls in which a request is built from stored defaults and overrides
MaxRequests == 2
\* calls made on one chat session and its model
MaxTurns == 3
\* network chunks delivered on one streamed connection
MaxChunks == 3

\* bytes of the data of one inline binary part
MaxBytes == 4

(***************************************************************************)
(* Option<T> and Result<T, E>.  None is <<>>, Some(v) is <<v>>.            *)
(***************************************************************************)
None == <<>>
Some(v) == <<v>>
IsSome(o) == o # <<>>
Unwrap(o) == o[1]
or_else(o, d) == IF IsSome(o) THEN o ELSE d

Ok(v) == [tag |-> "Ok", val |-> v]
Err(e) == [tag |-> "Err", err |-> e]
\* a panic is neither: the call never returns to its caller
Panic(where) == [tag |-> "Panic", at |-> where]

(***************************************************************************)
(* content.rs: Content, Part, Role.                                        *)
(***************************************************************************)
Text(s) == [kind |-> "Text", text |-> s]
Data(d, t) == [kind |-> "Data", data |-> d, mime_type |-> t]
Content(r, ps) == [role |-> r, parts |-> ps]
Content_user(p) == Content("User", <<p>>)
Content_model(p) == Content("Model", <<p>>)

(***************************************************************************)
(* error.rs: GeminiError and the mapping from the server's envelope.       *)
(***************************************************************************)
GeminiErrorKind ==
  {"InvalidArgument", "UnsupportedCountry", "PermissionDenied",
   "ResourceExhausted", "Internal", "ServiceUnavailable", "Other"}

GeminiError_message(msg) == [kind |-> "Other", message |-> msg]

\* a plausible slip: two adjacent match arms exchanged
GeminiError_from_swapped(value) ==
  [kind |-> CASE value.status = "INVALID_ARGUMENT" -> "InvalidArgument"
              [] value.status = "FAILED_PRECONDITION" -> "UnsupportedCountry"
              [] value.status = "PERMISSION_DENIED" -> "PermissionDenied"
              [] value.status = "RESOURCE_EXHAUSTED" -> "Internal"
              [] value.status = "INTERNAL" -> "ResourceExhausted"
              [] value.status = "UNAVAILABLE" -> "ServiceUnavailable"
              [] OTHER -> "Other",
   message |-> value.message]

GeminiError_from(value) ==
  [kind |-> CASE value.status = "INVALID_ARGUMENT" -> "InvalidArgument"
              [] value.status = "FAILED_PRECONDITION" -> "UnsupportedCountry"
              [] value.status = "PERMISSION_DENIED" -> "PermissionDenied"
              [] value.status = "RESOURCE_EXHAUSTED" -> "ResourceExhausted"
              [] value.status = "INTERNAL" -> "Internal"
              [] value.status = "UNAVAILABLE" -> "ServiceUnavailable"
              [] OTHER -> "Other",
   message |-> value.message]

(***************************************************************************)
(* Base64 as des_data reads it (general_purpose::STANDARD): a text is a   *)
(* sequence of symbols, 0..63 the alphabet, B64Pad the '=' sign and        *)
(* B64Bad any character outside the alphabet.  Padding is required, only  *)
(* at the end, and the unused trailing bits must be zero.                 *)
(***************************************************************************)
B64Pad == 64
B64Bad == 65

IsSextet(c) == c \in 0..63

B64QuadOk(q, last) ==
  /\ IsSextet(q[1]) /\ IsSextet(q[2])
  /\ \/ IsSextet(q[3]) /\ IsSextet(q[4])
     \/ last /\ IsSextet(q[3]) /\ q[4] = B64Pad /\ q[3] % 4 = 0
     \/ last /\ q[3] = B64Pad /\ q[4] = B64Pad /\ q[2] % 16 = 0

B64QuadBytes(q) ==
  LET b1 == q[1] * 4 + (q[2] \div 16) IN
  IF q[3] = B64Pad THEN <<b1>>
  ELSE LET b2 == (q[2] % 16) * 16 + (q[3] \div 4) IN
       IF q[4] = B64Pad THEN <<b1, b2>>
       ELSE <<b1, b2, (q[3] % 4) * 64 + q[4]>>

\* the bytes of one more quad put before the bytes decoded after it
B64Cons(q, r) == IF r.tag = "Err" THEN r ELSE Ok(B64QuadBytes(q) \o r.val)

RECURSIVE B64DecodeQuads(_)
B64DecodeQuads(s) ==
  IF s = <<>> THEN Ok(<<>>)
  ELSE IF ~B64QuadOk(SubSeq(s, 1, 4), Len(s) = 4) THEN Err("base64")
  ELSE B64Cons(SubSeq(s, 1, 4), B64DecodeQuads(SubSeq(s, 5, Len(s))))

base64_decode(s) ==
  IF Len(s) % 4 # 0 THEN Err("base64") ELSE B64DecodeQuads(s)

\* Result::unwrap
unwrap(r, where) == IF r.tag = "Ok" THEN r ELSE Panic(where)

\* des_data: .decode(..).unwrap() panics where the text is not base64
des_data(s) == unwrap(base64_decode(s), "des_data")

\* general_purpose::STANDARD.encode on up to three bytes: one padded quad
B64EncodeGroup(b) ==
  IF Len(b) = 1 THEN <<b[1] \div 4, (b[1] % 4) * 16, B64Pad, B64Pad>>
  ELSE IF Len(b) = 2
  THEN <<b[1] \div 4, (b[1] % 4) * 16 + (b[2] \div 16), (b[2] % 16) * 4, B64Pad>>
  ELSE <<b[1] \div 4, (b[1] % 4) * 16 + (b[2] \div 16),
         (b[2] % 16) * 4 + (b[3] \div 64), b[3] % 64>>

RECURSIVE base64_encode(_)
base64_encode(bytes) ==
  IF bytes = <<>> THEN <<>>
  ELSE IF Len(bytes) <= 3 THEN B64EncodeGroup(bytes)
  ELSE B64EncodeGroup(SubSeq(bytes, 1, 3)) \o base64_encode(SubSeq(bytes, 4, Len(bytes)))

\* an encoder that leaves the padding out (the STANDARD_NO_PAD engine)
ser_data_unpadded(bytes) == SelectSeq(base64_encode(bytes), LAMBDA c : c # B64Pad)

\* ser_data: the bytes as one base64 string
ser_data(bytes) == base64_encode(bytes)

(***************************************************************************)
(* Texts on the wire.  A text is a sequence of tokens: a single character *)
(* with its UTF-8 width, a whole serialized JSON object, or the fragment   *)
(* that is left of an object once its first byte is cut off.               *)
(***************************************************************************)
Ch(c, w) == [tok |-> "char", ch |-> c, width |-> w]
Obj(o) == [tok |-> "object", obj |-> o]
Frag == [tok |-> "fragment"]

\* a JSON object of a reply body; every key is optional on the wire
JsonObj(cands, usage, error, embedding) ==
  [candidates |-> cands, usageMetadata |-> usage, error |-> error,
   embedding |-> embedding]

\* serde_json::from_str reads exactly one JSON value from the whole text
json_value(text) ==
  IF text = <<>> THEN Err("EOF while parsing a value")
  ELSE IF text[1].tok # "object" THEN Err("expected value")
  ELSE IF Len(text) > 1 THEN Err("trailing characters")
  ELSE Ok(text[1].obj)

\* #[serde(rename_all = "camelCase")] on Role
des_Role(r) == IF r = "user" THEN "User" ELSE "Model"

\* the inlineData variant once its data is decoded
Part_Data(d, mime) == IF d.tag = "Panic" THEN d ELSE Ok(Data(d.val, mime))

\* Part is externally tagged: {"text": ..} or {"inlineData": {data, mimeType}}
des_Part(pj) ==
  IF pj.key = "text" THEN Ok(Text(pj.text))
  ELSE Part_Data(des_data(pj.data), pj.mimeType)

\* a sequence is read element by element; a panic in one aborts the read
collect(rs) ==
  IF \E i \in 1..Len(rs) : rs[i].tag = "Panic" THEN Panic("des_data")
  ELSE Ok([i \in 1..Len(rs) |-> rs[i].val])

Content_of(role, parts) ==
  IF parts.tag = "Panic" THEN parts ELSE Ok(Content(role, parts.val))

des_Content(cj) ==
  Content_of(des_Role(cj.role),
             collect([i \in 1..Len(cj.parts) |-> des_Part(cj.parts[i])]))

\* serde_json::from_str::<Content>
from_str_Content_value(j) == IF j.tag = "Err" THEN j ELSE des_Content(j.val)
from_str_Content(text) == from_str_Content_value(json_value(text))

\* #[serde(rename_all = "camelCase")] on Role
ser_Role(r) == IF r = "User" THEN "user" ELSE "model"

\* Serialize for Part: {"text": ..} or {"inlineData": {data, mimeType}}
ser_Part(p) ==
  IF p.kind = "Text"
  THEN [key |-> "text", text |-> p.text, data |-> <<>>, mimeType |-> ""]
  ELSE [key |-> "inlineData", text |-> "", data |-> ser_data(p.data),
        mimeType |-> p.mime_type]

\* Serialize for Content
ser_Content(c) ==
  [role |-> ser_Role(c.role),
   parts |-> [i \in 1..Len(c.parts) |-> ser_Part(c.parts[i])]]

\* serde_json::to_string(&content): the text of one JSON object
to_string_Content(c) == <<Obj(ser_Content(c))>>

Candidate_of(content) ==
  IF content.tag = "Panic" THEN content ELSE Ok([content |-> content.val])

des_Candidates(cs) ==
  collect([i \in 1..Len(cs) |-> Candidate_of(des_Content(cs[i].content))])

\* the struct once its candidates are read: usageMetadata is required
GeminiResponse_of(cs, usage) ==
  IF cs.tag = "Panic" THEN cs
  ELSE IF ~IsSome(usage) THEN Err("missing field usageMetadata")
  ELSE Ok([candidates |-> cs.val, usage_metadata |-> Unwrap(usage)])

\* Deserialize for GeminiResponse: candidates and usageMetadata are
\* required, unknown keys are ignored; the data of a part is decoded while
\* the candidates are read, before a missing key is reported
des_GeminiResponse(j) ==
  IF j.tag = "Err" THEN j
  ELSE IF ~IsSome(j.val.candidates) THEN Err("missing field candidates")
  ELSE GeminiResponse_of(des_Candidates(Unwrap(j.val.candidates)),
                         j.val.usageMetadata)

\* serde_json::from_str::<GeminiResponse>
from_str_GeminiResponse(text) == des_GeminiResponse(json_value(text))

des_EmbedContentResponse(j) ==
  IF j.tag = "Err" THEN j
  ELSE IF ~IsSome(j.val.embedding) THEN Err("missing field embedding")
  ELSE Ok([embedding |-> [values |-> Unwrap(j.val.embedding)]])

\* serde_json::from_str::<EmbedContentResponse>
from_str_EmbedContentResponse(text) == des_EmbedContentResponse(json_value(text))

\* Deserialize for GeminiGenericError: code, message and status are required
des_GeminiGenericError(e) ==
  IF ~IsSome(e.code) THEN Err("missing field code")
  ELSE IF ~IsSome(e.message) THEN Err("missing field message")
  ELSE IF ~IsSome(e.status) THEN Err("missing field status")
  ELSE Ok([error |-> [code |-> Unwrap(e.code),
                      message |-> Unwrap(e.message),
                      status |-> Unwrap(e.status)]])

des_GeminiGenericErrorResponse(j) ==
  IF j.tag = "Err" THEN j
  ELSE IF ~IsSome(j.val.error) THEN Err("missing field error")
  ELSE des_GeminiGenericError(Unwrap(j.val.error))

\* serde_json::from_str::<GeminiGenericErrorResponse>: {error: {code, message, status}}
from_str_GeminiGenericErrorResponse(text) ==
  des_GeminiGenericErrorResponse(json_value(text))

\* .map(|x| GeminiError::from(x.error)).unwrap_or_else(|x| GeminiError::message(..))
map_unwrap_or_else(e) ==
  IF e.tag = "Ok" THEN GeminiError_from(e.val.error)
  ELSE GeminiError_message(e.err)

\* the else branch shared by generate_content_with, embed_content and the
\* streaming closure: the envelope mapped, or the parse failure of the envelope
error_of_body(text) == map_unwrap_or_else(from_str_GeminiGenericErrorResponse(text))

\* if let Ok(response) = from_str(..) { Ok(response) } else { Err(..) }
ok_or_error_of_body(r, text) ==
  IF r.tag \in {"Ok", "Panic"} THEN r ELSE Err(error_of_body(text))

(***************************************************************************)
(* model.rs: GenerativeModelBuilder and GenerativeModel.                   *)
(***************************************************************************)
GenerativeModelBuilder(key, model, sys, safety, gen, tools) ==
  [api_key |-> key, model |-> model, system_instruction |-> sys,
   safety_settings |-> safety, generation_config |-> gen, tools |-> tools]

GenerativeModelBuilder_new ==
  GenerativeModelBuilder(None, None, None, None, None, None)

\* GenerativeModelBuilder::build; the api key must be set (it panics otherwise)
build(b) ==
  [api_key |-> Unwrap(b.api_key),
   model |-> IF IsSome(b.model) THEN Unwrap(b.model) ELSE "Pro_1_5",
   generation_config |-> b.generation_config,
   system_instruction |-> b.system_instruction,
   safety_settings |-> b.safety_settings,
   tools |-> b.tools]

\* impl Display for GeminiModel
GeminiModel_fmt(m) ==
  CASE m = "Pro_1_5" -> "gemini-1.5-pro"
    [] m = "Flash_1_5" -> "gemini-1.5-flash"
    [] m = "Flash_1_5_8B" -> "gemini-1.5-flash-8b"
    [] m = "TextEmbedding004" -> "text-embedding-004"
    [] OTHER -> m

\* reqwest: client.post(url).json(&body).send() puts one request on the wire
client_post(wire, url, body) == Append(wire, [url |-> url, body |-> body])

\* a slip that lets the per-call builder overwrite the stored defaults
send_request_storing(self, prompt, config, stream, reply, wire) ==
  LET merged == [self EXCEPT
                   !.tools = or_else(config.tools, self.tools),
                   !.safety_settings =
                      or_else(config.safety_settings, self.safety_settings),
                   !.system_instruction =
                      or_else(config.system_instruction, self.system_instruction),
                   !.generation_config =
                      or_else(config.generation_config, self.generation_config)]
      request == [contents |-> prompt, tools |-> merged.tools,
                  safety_settings |-> merged.safety_settings,
                  system_instruction |-> merged.system_instruction,
                  generation_config |-> merged.generation_config]
      url == [model |-> GeminiModel_fmt(IF IsSome(config.model)
                                         THEN Unwrap(config.model)
                                         ELSE self.model),
              suffix |-> IF stream THEN "streamGenerateContent"
                         ELSE "generateContent",
              key |-> self.api_key]
  IN [self |-> merged,
      wire |-> client_post(wire, url, request),
      result |-> IF IsSome(reply.send_err)
                 THEN Err([kind |-> "Other", message |-> Unwrap(reply.send_err)])
                 ELSE Ok(reply)]

\* a slip that merges the wrong way round: the stored default wins
send_request_defaults_first(self, prompt, config, stream, reply, wire) ==
  LET request == [contents |-> prompt,
                  tools |-> or_else(self.tools, config.tools),
                  safety_settings |->
                     or_else(self.safety_settings, config.safety_settings),
                  system_instruction |->
                     or_else(self.system_instruction, config.system_instruction),
                  generation_config |->
                     or_else(self.generation_config, config.generation_config)]
      url == [model |-> GeminiModel_fmt(IF IsSome(config.model)
                                         THEN Unwrap(config.model)
                                         ELSE self.model),
              suffix |-> IF stream THEN "streamGenerateContent"
                         ELSE "generateContent",
              key |-> self.api_key]
  IN [self |-> self,
      wire |-> client_post(wire, url, request),
      result |-> IF IsSome(reply.send_err)
                 THEN Err([kind |-> "Other", message |-> Unwrap(reply.send_err)])
                 ELSE Ok(reply)]

\* a slip that sends the request again when the first send fails
send_request_retrying(self, prompt, config, stream, reply, wire) ==
  LET request == [contents |-> prompt,
                  tools |-> or_else(config.tools, self.tools),
                  safety_settings |->
                     or_else(config.safety_settings, self.safety_settings),
                  system_instruction |->
                     or_else(config.system_instruction, self.system_instruction),
                  generation_config |->
                     or_else(config.generation_config, self.generation_config)]
      url == [model |-> GeminiModel_fmt(IF IsSome(config.model)
                                         THEN Unwrap(config.model)
                                         ELSE self.model),
              suffix |-> IF stream THEN "streamGenerateContent"
                         ELSE "generateContent",
              key |-> self.api_key]
      once == client_post(wire, url, request)
  IN [self |-> self,
      wire |-> IF IsSome(reply.send_err) THEN client_post(once, url, request)
               ELSE once,
      result |-> IF IsSome(reply.send_err)
                 THEN Err([kind |-> "Other", message |-> Unwrap(reply.send_err)])
                 ELSE Ok(reply)]

\* GenerativeModel::send_request(&self, prompt, config, stream): the request
\* takes each field from the builder, else from self; one POST; a send
\* failure is an error of kind Other.  self is borrowed immutably.
send_request(self, prompt, config, stream, reply, wire) ==
  LET request == [contents |-> prompt,
                  tools |-> or_else(config.tools, self.tools),
                  safety_settings |->
                     or_else(config.safety_settings, self.safety_settings),
                  system_instruction |->
                     or_else(config.system_instruction, self.system_instruction),
                  generation_config |->
                     or_else(config.generation_config, self.generation_config)]
      url == [model |-> GeminiModel_fmt(IF IsSome(config.model)
                                         THEN Unwrap(config.model)
                                         ELSE self.model),
              suffix |-> IF stream THEN "streamGenerateContent"
                         ELSE "generateContent",
              key |-> self.api_key]
  IN [self |-> self,
      wire |-> client_post(wire, url, request),
      result |-> IF IsSome(reply.send_err)
                 THEN Err([kind |-> "Other", message |-> Unwrap(reply.send_err)])
                 ELSE Ok(reply)]

\* the body of a non-streamed reply read to the end and parsed:
\* success schema first, then the error envelope, then the parse failure
parse_GeminiResponse_body(response) ==
  IF IsSome(response.read_err)
  THEN Err([kind |-> "Other", message |-> Unwrap(response.read_err)])
  ELSE ok_or_error_of_body(from_str_GeminiResponse(response.text), response.text)

\* generate_content_with after send_request(..).await?
generate_content_with_response(s) ==
  [self |-> s.self, wire |-> s.wire,
   result |-> IF s.result.tag = "Err" THEN s.result
              ELSE parse_GeminiResponse_body(s.result.val)]

\* GenerativeModel::generate_content_with
generate_content_with(self, prompt, config, reply, wire) ==
  generate_content_with_response(
    send_request(self, prompt, config, FALSE, reply, wire))

\* GenerativeModel::generate_content: no overrides
generate_content(self, prompt, reply, wire) ==
  generate_content_with(self, prompt, GenerativeModelBuilder_new, reply, wire)

\* impl<T: Into<Part>> From<T> for Content
Content_from(value) == Content_user(value)

\* embed_content after the request is sent: the body is read and parsed
parse_EmbedContentResponse_body(response) ==
  IF IsSome(response.send_err)
  THEN Err(GeminiError_message(Unwrap(response.send_err)))
  ELSE IF IsSome(response.read_err)
  THEN Err(GeminiError_message(Unwrap(response.read_err)))
  ELSE ok_or_error_of_body(from_str_EmbedContentResponse(response.text),
                           response.text)

\* GenerativeModel::embed_content
embed_content(self, content, config, reply, wire) ==
  [self |-> self,
   wire |-> client_post(wire,
              [model |-> GeminiModel_fmt(self.model), suffix |-> "embedContent",
               key |-> self.api_key],
              [content |-> Content_from(content), config |-> config]),
   result |-> parse_EmbedContentResponse_body(reply)]

(***************************************************************************)
(* model.rs: the streaming decoder.  A chunk of the body stream is a read  *)
(* error or bytes; bytes are valid UTF-8 holding a text, or are not.       *)
(***************************************************************************)
Chunk(text) == [read_err |-> None, utf8 |-> TRUE, text |-> text]
ChunkNotUtf8 == [read_err |-> None, utf8 |-> FALSE, text |-> <<>>]
ChunkReadErr(msg) == [read_err |-> Some(msg), utf8 |-> TRUE, text |-> <<>>]

\* &s[1..]: panics on an empty str and when byte 1 is inside a character;
\* an object that loses its first byte is a fragment
str_from_1(text) ==
  IF text = <<>> THEN Panic("str index")
  ELSE IF text[1].tok = "char"
  THEN IF text[1].width = 1 THEN Ok(Tail(text)) ELSE Panic("str index")
  ELSE Ok(<<Frag>> \o Tail(text))

Skip == [tag |-> "Skip"]
Item(r) == [tag |-> "Item", item |-> r]

\* the closure on a str that is not empty: Some(Ok(..)) or Some(Err(..))
stream_item_parsed(r, str) ==
  IF r.tag = "Ok" THEN Item(r)
  ELSE IF r.tag = "Panic" THEN r
  ELSE Item(Err(error_of_body(str)))

\* a slip that parses the chunk without cutting its delimiter
stream_item_uncut(chunk) ==
  IF IsSome(chunk.read_err)
  THEN Item(Err(GeminiError_message(Unwrap(chunk.read_err))))
  ELSE IF ~chunk.utf8 THEN Panic("from_utf8")
  ELSE IF chunk.text = <<>> THEN Skip
  ELSE stream_item_parsed(from_str_GeminiResponse(chunk.text), chunk.text)

\* the closure on the str left of the delimiter
stream_item_str(cut) ==
  IF cut.tag = "Panic" THEN cut
  ELSE IF cut.val = <<>> THEN Skip
  ELSE stream_item_parsed(from_str_GeminiResponse(cut.val), cut.val)

\* the closure given to filter_map in generate_content_streamed_with
stream_item(chunk) ==
  IF IsSome(chunk.read_err)
  THEN Item(Err(GeminiError_message(Unwrap(chunk.read_err))))
  ELSE IF ~chunk.utf8 THEN Panic("from_utf8")
  ELSE stream_item_str(str_from_1(chunk.text))

\* the state of the stream a streamed call returns: the chunks the
\* connection has delivered, the items yielded, whether the body has ended
Stream_new == [received |-> <<>>, items |-> <<>>, ended |-> FALSE]

\* generate_content_streamed_with after send_request(..).await?
generate_content_streamed_with_response(s) ==
  [self |-> s.self, wire |-> s.wire,
   result |-> IF s.result.tag = "Err" THEN s.result ELSE Ok(Stream_new)]

\* GenerativeModel::generate_content_streamed_with
generate_content_streamed_with(self, prompt, config, reply, wire) ==
  generate_content_streamed_with_response(
    send_request(self, prompt, config, TRUE, reply, wire))

\* GenerativeModel::generate_content_streamed: no overrides
generate_content_streamed(self, prompt, reply, wire) ==
  generate_content_streamed_with(self, prompt, GenerativeModelBuilder_new,
                                 reply, wire)

(***************************************************************************)
(* chat.rs: ChatSession.                                                   *)
(***************************************************************************)
\* GenerativeModel::start_chat: the session owns a clone of the model
start_chat(self, history) ==
  [self |-> self, session |-> [model |-> self, history |-> history]]

\* send_message after the await: candidates[0].content is pushed when the
\* call is Ok; indexing an empty candidates list panics
send_message_response(pushed, g) ==
  [wire |-> g.wire,
   session |-> [model |-> g.self,
                history |-> IF g.result.tag = "Ok" /\ g.result.val.candidates # <<>>
                            THEN Append(pushed, g.result.val.candidates[1].content)
                            ELSE pushed],
   result |-> IF g.result.tag = "Ok" /\ g.result.val.candidates = <<>>
              THEN Panic("candidates[0]") ELSE g.result]

\* send_message once the user turn is pushed: the model is called with the
\* whole history
send_message_pushed(session, pushed, reply, wire) ==
  send_message_response(pushed,
    generate_content(session.model, pushed, reply, wire))

\* a slip that takes the last candidate instead of the first
send_message_last_candidate(session, content, reply, wire) ==
  LET pushed == Append(session.history, content)
      g == generate_content(session.model, pushed, reply, wire)
      cands == IF g.result.tag = "Ok" THEN g.result.val.candidates ELSE <<>>
  IN [wire |-> g.wire,
      session |-> [model |-> g.self,
                   history |-> IF cands # <<>>
                               THEN Append(pushed, cands[Len(cands)].content)
                               ELSE pushed],
      result |-> IF g.result.tag = "Ok" /\ cands = <<>>
                 THEN Panic("candidates[0]") ELSE g.result]

\* a variant that takes the user turn back when the call fails
send_message_rollback(session, content, reply, wire) ==
  LET pushed == Append(session.history, content)
      g == generate_content(session.model, pushed, reply, wire)
      cands == IF g.result.tag = "Ok" THEN g.result.val.candidates ELSE <<>>
  IN [wire |-> g.wire,
      session |-> [model |-> g.self,
                   history |-> IF cands # <<>>
                               THEN Append(pushed, cands[1].content)
                               ELSE session.history],
      result |-> IF g.result.tag = "Ok" /\ cands = <<>>
                 THEN Panic("candidates[0]") ELSE g.result]

\* a slip that puts the reply in the place of the turn just pushed
send_message_overwrite(session, content, reply, wire) ==
  LET pushed == Append(session.history, content)
      g == generate_content(session.model, pushed, reply, wire)
      cands == IF g.result.tag = "Ok" THEN g.result.val.candidates ELSE <<>>
  IN [wire |-> g.wire,
      session |-> [model |-> g.self,
                   history |-> IF cands # <<>>
                               THEN Append(session.history, cands[1].content)
                               ELSE pushed],
      result |-> IF g.result.tag = "Ok" /\ cands = <<>>
                 THEN Panic("candidates[0]") ELSE g.result]

\* a slip that sends only the new turn instead of the whole history
send_message_new_turn_only(session, content, reply, wire) ==
  send_message_response(Append(session.history, content),
    generate_content(session.model, <<content>>, reply, wire))

\* ChatSession::send_message: push the user turn, call the model with the
\* whole history, push candidates[0].content when the call is Ok
send_message(session, content, reply, wire) ==
  send_message_pushed(session, Append(session.history, content), reply, wire)

(***************************************************************************)
(* The inputs: what callers pass and what the server answers.              *)
(***************************************************************************)
U_hi == Content_user(Text("hi"))
U_again == Content_user(Text("again"))
M_hello == Content_model(Text("hello"))

\* contents a caller builds with Content::user / Content::model
UserContents == {U_hi, U_again}
Prompts == {<<U_hi>>, <<U_hi, M_hello, U_again>>}
\* histories a caller starts a chat with; one still waits for its answer
Histories == {<<>>, <<U_hi, M_hello>>, <<U_hi>>}
EmbedInputs == {Text("hi"), Text("again")}

\* byte values at the edges and in the middle of the range of a u8
ByteValues == {0, 1, 90, 128, 255}
MimeTypes == {"image/png", ""}

RECURSIVE SeqsUpTo(_, _)
SeqsUpTo(S, n) ==
  IF n = 0 THEN {<<>>}
  ELSE SeqsUpTo(S, n - 1)
       \cup {Append(q, x) : q \in {r \in SeqsUpTo(S, n - 1) : Len(r) = n - 1}, x \in S}

\* contents with one binary part, as Content { role, parts: vec![Part::Data {..}] }
DataContents ==
  {Content(r, <<Data(d, t)>>) :
     r \in {"User", "Model"}, d \in SeqsUpTo(ByteValues, MaxBytes), t \in MimeTypes}

ConfigFields == {"system_instruction", "safety_settings", "generation_config", "tools"}

\* a builder with the fields of S set to values marked by tag
BuilderWith(key, model, S, tag) ==
  GenerativeModelBuilder(key, model,
    IF "system_instruction" \in S THEN Some(Content_user(Text(tag))) ELSE None,
    IF "safety_settings" \in S
      THEN Some(<<[category |-> "Harassment", threshold |-> tag]>>) ELSE None,
    IF "generation_config" \in S THEN Some([stop_sequences |-> <<tag>>]) ELSE None,
    IF "tools" \in S
      THEN Some(<<[function_declarations |-> <<[name |-> tag]>>]>>) ELSE None)

\* the builders a GenerativeModel is built from
ModelBuilders ==
  {BuilderWith(Some("key"), None, {}, "default"),
   BuilderWith(Some("key"), Some("Flash_1_5"), ConfigFields, "default"),
   BuilderWith(Some("key"), None, {"system_instruction", "tools"}, "default"),
   BuilderWith(Some("key"), Some("Flash_1_5"),
               {"safety_settings", "generation_config"}, "default")}

AllModelBuilders ==
  {BuilderWith(Some("key"), None, S, "default") : S \in SUBSET ConfigFields}

\* the per-call override builders
AllOverrides ==
  {BuilderWith(None, m, S, "override") :
     m \in {None, Some("Flash_1_5_8B")}, S \in SUBSET ConfigFields}
  \cup {BuilderWith(Some("other key"), None, {}, "override")}

Overrides ==
  {GenerativeModelBuilder_new,
   BuilderWith(None, Some("Flash_1_5_8B"), ConfigFields, "override"),
   BuilderWith(None, None, {"system_instruction", "generation_config"}, "override"),
   BuilderWith(Some("other key"), None, {"tools"}, "override")}

EmbedConfigs ==
  {[task_type |-> None, title |-> None],
   [task_type |-> Some("RETRIEVAL_QUERY"), title |-> Some("t")]}

\* JSON of the reply bodies
PJText(s) == [key |-> "text", text |-> s, data |-> <<>>, mimeType |-> ""]
PJData(b64, mime) == [key |-> "inlineData", text |-> "", data |-> b64, mimeType |-> mime]
CandJ(role, parts) == [content |-> [role |-> role, parts |-> parts]]
Usage == [totalTokenCount |-> 3]
Envelope(code, message, status) == [code |-> code, message |-> message, status |-> status]
SuccessObj(cands) == JsonObj(Some(cands), Some(Usage), None, None)
ErrorObj(status, message) ==
  JsonObj(None, None, Some(Envelope(Some(429), Some(message), Some(status))), None)

Statuses ==
  {"INVALID_ARGUMENT", "FAILED_PRECONDITION", "PERMISSION_DENIED",
   "RESOURCE_EXHAUSTED", "INTERNAL", "UNAVAILABLE", "WEIRD",
   "invalid_argument", ""}
Messages == {"quota exceeded", ""}

Cand_hello == CandJ("model", <<PJText("hello")>>)
Cand_other == CandJ("model", <<PJText("other")>>)
Cand_noparts == CandJ("model", <<>>)
Cand_image == CandJ("model", <<PJText("see"), PJData(<<0, 16, 32, B64Pad>>, "image/png")>>)
Cand_badchar == CandJ("model", <<PJData(<<B64Bad, 0, 0, 0>>, "image/png")>>)
Cand_badpad == CandJ("model", <<PJData(<<0, 17, B64Pad, B64Pad>>, "image/png")>>)
Cand_badlen == CandJ("model", <<PJText("see"), PJData(<<0, 16>>, "image/png")>>)

\* response objects that follow the schema of the API
ResponseObjs ==
  {SuccessObj(<<Cand_hello>>), SuccessObj(<<Cand_hello, Cand_other>>),
   SuccessObj(<<Cand_other>>), SuccessObj(<<Cand_image>>),
   SuccessObj(<<Cand_noparts>>), SuccessObj(<<>>)}

\* objects whose inline data is not base64
BadDataObjs ==
  {SuccessObj(<<Cand_badchar>>), SuccessObj(<<Cand_hello, Cand_badpad>>),
   JsonObj(Some(<<Cand_badlen>>), None, None, None)}

ErrorObjs == {ErrorObj(st, m) : st \in Statuses, m \in Messages}

\* other objects: keys missing, keys of both schemas, the embedding schema
OtherObjs ==
  {JsonObj(None, None, None, None),
   JsonObj(Some(<<Cand_hello>>), None, None, None),
   JsonObj(None, Some(Usage), None, None),
   JsonObj(Some(<<Cand_hello>>), Some(Usage),
           Some(Envelope(Some(500), Some("both"), Some("INTERNAL"))), None),
   JsonObj(None, None, Some(Envelope(Some(500), Some("no status"), None)), None),
   JsonObj(None, None, Some(Envelope(None, Some("no code"), Some("INTERNAL"))), None),
   JsonObj(None, None, None, Some(<<1, 2>>)),
   JsonObj(None, None,
           Some(Envelope(Some(403), Some("denied"), Some("PERMISSION_DENIED"))),
           Some(<<1, 2>>))}

\* texts that are not one JSON object
NonJsonTexts ==
  {<<>>, <<Ch("<", 1)>>, <<Obj(SuccessObj(<<Cand_hello>>)), Ch("x", 1)>>}

Reply(send_err, read_err, text) ==
  [send_err |-> send_err, read_err |-> read_err, text |-> text]

TransportFailures ==
  {Reply(Some("error sending request"), None, <<>>),
   Reply(None, Some("error decoding response body"), <<>>)}

\* every answer the model considers
AllReplies ==
  TransportFailures
  \cup {Reply(None, None, <<Obj(o)>>) :
          o \in ResponseObjs \cup BadDataObjs \cup ErrorObjs \cup OtherObjs}
  \cup {Reply(None, None, t) : t \in NonJsonTexts}

\* one answer of each kind
Replies ==
  TransportFailures
  \cup {Reply(None, None, <<Obj(o)>>) :
          o \in {SuccessObj(<<Cand_hello, Cand_other>>), SuccessObj(<<Cand_other>>),
                 SuccessObj(<<Cand_noparts>>), SuccessObj(<<>>),
                 SuccessObj(<<Cand_badchar>>),
                 ErrorObj("RESOURCE_EXHAUSTED", "quota exceeded"),
                 JsonObj(None, None, None, Some(<<1, 2>>))}}
  \cup {Reply(None, None, <<Ch("<", 1)>>)}

\* answers to a streamed call: the headers arrive, or the send fails
StreamReplies ==
  {Reply(None, None, <<>>), Reply(Some("error sending request"), None, <<>>)}

\* the chunks of a streamed body
FramedChunks ==
  {Chunk(<<Ch(d, 1), Obj(o)>>) :
     d \in {"[", ","}, o \in {SuccessObj(<<Cand_hello>>), SuccessObj(<<Cand_other>>)}}
ClosingChunk == Chunk(<<Ch("]", 1)>>)
Chunks ==
  FramedChunks
  \cup {ClosingChunk, Chunk(<<>>), ChunkNotUtf8, ChunkReadErr("connection reset"),
        Chunk(<<Ch("e-acute", 2), Obj(SuccessObj(<<Cand_hello>>))>>),
        Chunk(<<Obj(SuccessObj(<<Cand_hello>>))>>),
        Chunk(<<Ch("[", 1), Obj(ErrorObj("UNAVAILABLE", "overloaded"))>>),
        Chunk(<<Ch(",", 1), Obj(SuccessObj(<<Cand_badchar>>))>>),
        Chunk(<<Ch(",", 1), Obj(SuccessObj(<<Cand_hello>>)),
                Ch(",", 1), Obj(SuccessObj(<<Cand_other>>))>>),
        Chunk(<<Ch("[", 1), Ch("{", 1)>>)}

(***************************************************************************)
(* The state.                                                              *)
(*   gm        the caller's GenerativeModel                                *)
(*   chat      None, or the ChatSession start_chat returned                *)
(*   stream    None, or the stream the last successful streamed call       *)
(*             returned                                                    *)
(*   call      the last step: the entry point and its arguments            *)
(*   ret       what the last step returned (or that it panicked)           *)
(*   sent      the HTTP requests the last step put on the wire             *)
(*   steps     the number of steps taken                                   *)
(*   panicked  a panic has aborted the caller                              *)
(*   session_log  of the ChatSession: the length of the history it was    *)
(*             started with and, for every send_message made on it, the  *)
(*             place of the pushed turn and whether the call returned Ok *)
(***************************************************************************)
VARIABLES gm, chat, stream, call, ret, sent, steps, panicked, session_log

vars == <<gm, chat, stream, call, ret, sent, steps, panicked, session_log>>

InitWith(builders) ==
  /\ gm \in {build(b) : b \in builders}
  /\ chat = None
  /\ stream = None
  /\ call = [op |-> "none"]
  /\ ret = [tag |-> "None"]
  /\ sent = <<>>
  /\ steps = 0
  /\ panicked = FALSE
  /\ session_log = [start |-> 0, calls |-> <<>>]

Init == InitWith(ModelBuilders)
InitRequest == InitWith(AllModelBuilders)

\* a caller holds a Content with one binary part and is about to encode it
InitCodec ==
  /\ gm \in {build(b) : b \in ModelBuilders}
  /\ chat = None
  /\ stream = None
  /\ call \in {[op |-> "new", content |-> c] : c \in DataContents}
  /\ ret = [tag |-> "None"]
  /\ sent = <<>>
  /\ steps = 0
  /\ panicked = FALSE
  /\ session_log = [start |-> 0, calls |-> <<>>]

StartChat(history) ==
  /\ ~panicked
  /\ LET out == start_chat(gm, history) IN
     /\ gm' = out.self
     /\ chat' = Some(out.session)
  /\ call' = [op |-> "start_chat", history |-> history]
  /\ ret' = [tag |-> "Session"]
  /\ sent' = <<>>
  /\ steps' = steps + 1
  /\ session_log' = [start |-> Len(history), calls |-> <<>>]
  /\ UNCHANGED <<stream, panicked>>

SendMessage(content, reply) ==
  /\ ~panicked
  /\ IsSome(chat)
  /\ LET out == send_message(Unwrap(chat), content, reply, <<>>) IN
     /\ chat' = Some(out.session)
     /\ sent' = out.wire
     /\ ret' = out.result
     /\ panicked' = (out.result.tag = "Panic")
     /\ session_log' = [session_log EXCEPT !.calls =
                           Append(@, [at |-> Len(Unwrap(chat).history) + 1,
                                      ok |-> out.result.tag = "Ok"])]
  /\ call' = [op |-> "send_message", content |-> content, reply |-> reply]
  /\ steps' = steps + 1
  /\ UNCHANGED <<gm, stream>>

GenerateContent(prompt, reply) ==
  /\ ~panicked
  /\ LET out == generate_content(gm, prompt, reply, <<>>) IN
     /\ gm' = out.self
     /\ sent' = out.wire
     /\ ret' = out.result
     /\ panicked' = (out.result.tag = "Panic")
  /\ call' = [op |-> "generate_content", prompt |-> prompt,
              config |-> GenerativeModelBuilder_new, reply |-> reply]
  /\ steps' = steps + 1
  /\ UNCHANGED <<chat, stream, session_log>>

GenerateContentWith(prompt, config, reply) ==
  /\ ~panicked
  /\ LET out == generate_content_with(gm, prompt, config, reply, <<>>) IN
     /\ gm' = out.self
     /\ sent' = out.wire
     /\ ret' = out.result
     /\ panicked' = (out.result.tag = "Panic")
  /\ call' = [op |-> "generate_content_with", prompt |-> prompt,
              config |-> config, reply |-> reply]
  /\ steps' = steps + 1
  /\ UNCHANGED <<chat, stream, session_log>>

GenerateContentStreamed(prompt, reply) ==
  /\ ~panicked
  /\ LET out == generate_content_streamed(gm, prompt, reply, <<>>) IN
     /\ gm' = out.self
     /\ sent' = out.wire
     /\ ret' = out.result
     /\ stream' = IF out.result.tag = "Ok" THEN Some(out.result.val) ELSE stream
  /\ call' = [op |-> "generate_content_streamed", prompt |-> prompt,
              config |-> GenerativeModelBuilder_new, reply |-> reply]
  /\ steps' = steps + 1
  /\ UNCHANGED <<chat, panicked, session_log>>

GenerateContentStreamedWith(prompt, config, reply) ==
  /\ ~panicked
  /\ LET out == generate_content_streamed_with(gm, prompt, config, reply, <<>>) IN
     /\ gm' = out.self
     /\ sent' = out.wire
     /\ ret' = out.result
     /\ stream' = IF out.result.tag = "Ok" THEN Some(out.result.val) ELSE stream
  /\ call' = [op |-> "generate_content_streamed_with", prompt |-> prompt,
              config |-> config, reply |-> reply]
  /\ steps' = steps + 1
  /\ UNCHANGED <<chat, panicked, session_log>>

EmbedContent(value, config, reply) ==
  /\ ~panicked
  /\ LET out == embed_content(gm, value, config, reply, <<>>) IN
     /\ gm' = out.self
     /\ sent' = out.wire
     /\ ret' = out.result
  /\ call' = [op |-> "embed_content", content |-> value,
              embed_config |-> config, reply |-> reply]
  /\ steps' = steps + 1
  /\ UNCHANGED <<chat, stream, panicked, session_log>>

\* the connection delivers a chunk and the filter_map closure handles it
StreamChunk(chunk) ==
  /\ ~panicked
  /\ IsSome(stream)
  /\ ~Unwrap(stream).ended
  /\ LET st == Unwrap(stream)
         r == stream_item(chunk)
     IN /\ stream' = Some([st EXCEPT
                             !.received = Append(@, chunk),
                             !.items = IF r.tag = "Item" THEN Append(@, r.item)
                                       ELSE @])
        /\ ret' = r
        /\ panicked' = (r.tag = "Panic")
  /\ call' = [op |-> "poll", chunk |-> chunk]
  /\ sent' = <<>>
  /\ steps' = steps + 1
  /\ UNCHANGED <<gm, chat, session_log>>

\* the body ends: filter_map passes the end of the inner stream on
StreamEnd ==
  /\ ~panicked
  /\ IsSome(stream)
  /\ ~Unwrap(stream).ended
  /\ stream' = Some([Unwrap(stream) EXCEPT !.ended = TRUE])
  /\ call' = [op |-> "end"]
  /\ ret' = [tag |-> "End"]
  /\ sent' = <<>>
  /\ steps' = steps + 1
  /\ UNCHANGED <<gm, chat, panicked, session_log>>

\* serde_json::to_string(&content) through the derived Serialize
SerializeContent ==
  /\ ~panicked
  /\ call.op = "new"
  /\ call' = [op |-> "to_string", content |-> call.content]
  /\ ret' = Ok(to_string_Content(call.content))
  /\ sent' = <<>>
  /\ steps' = steps + 1
  /\ UNCHANGED <<gm, chat, stream, panicked, session_log>>

\* serde_json::from_str::<Content>(&text) on the text just written
DeserializeContent ==
  /\ ~panicked
  /\ call.op = "to_string"
  /\ call' = [op |-> "from_str", content |-> call.content, text |-> ret.val]
  /\ ret' = from_str_Content(ret.val)
  /\ panicked' = (from_str_Content(ret.val).tag = "Panic")
  /\ sent' = <<>>
  /\ steps' = steps + 1
  /\ UNCHANGED <<gm, chat, stream, session_log>>

(***************************************************************************)
(* The specifications.                                                     *)
(***************************************************************************)
\* the whole library: every entry point, one answer of each kind
Next ==
  /\ steps < MaxSteps
  /\ \/ \E h \in Histories : StartChat(h)
     \/ \E c \in UserContents, r \in Replies : SendMessage(c, r)
     \/ \E p \in Prompts, r \in Replies : GenerateContent(p, r)
     \/ \E p \in Prompts, o \in Overrides, r \in Replies :
          GenerateContentWith(p, o, r)
     \/ \E p \in Prompts, r \in StreamReplies : GenerateContentStreamed(p, r)
     \/ \E p \in Prompts, o \in Overrides, r \in StreamReplies :
          GenerateContentStreamedWith(p, o, r)
     \/ \E v \in EmbedInputs, o \in EmbedConfigs, r \in Replies :
          EmbedContent(v, o, r)
     \/ \E c \in Chunks : StreamChunk(c)
     \/ StreamEnd

Spec == Init /\ [][Next]_vars

\* the wire encoding of a binary part: written, then read back
NextCodec == SerializeContent \/ DeserializeContent

SpecCodec == InitCodec /\ [][NextCodec]_vars

\* a chat session and its model, turn after turn
NextChat ==
  /\ steps < MaxTurns + 1
  /\ \/ chat = None /\ \E h \in Histories : StartChat(h)
     \/ \E c \in UserContents, r \in Replies : SendMessage(c, r)
     \/ chat # None /\ \E p \in Prompts, r \in Replies : GenerateContent(p, r)

SpecChat == Init /\ [][NextChat]_vars

\* request building: every set of stored defaults against every override
NextRequest ==
  /\ steps < MaxRequests
  /\ \/ \E p \in Prompts, r \in StreamReplies : GenerateContent(p, r)
     \/ \E p \in Prompts, o \in AllOverrides, r \in StreamReplies :
          GenerateContentWith(p, o, r)
     \/ \E p \in Prompts, r \in StreamReplies : GenerateContentStreamed(p, r)
     \/ \E p \in Prompts, o \in AllOverrides, r \in StreamReplies :
          GenerateContentStreamedWith(p, o, r)

SpecRequest == InitRequest /\ [][NextRequest]_vars

\* reply handling: every answer
NextReply ==
  /\ steps < MaxSteps
  /\ \/ \E p \in Prompts, r \in AllReplies :
          GenerateContentWith(p, GenerativeModelBuilder_new, r)
     \/ \E v \in EmbedInputs, o \in EmbedConfigs, r \in AllReplies :
          EmbedContent(v, o, r)

SpecReply == Init /\ [][NextReply]_vars

\* one streamed connection, chunk after chunk
NextStream ==
  /\ steps < MaxChunks + 2
  /\ \/ stream = None /\ \E p \in Prompts, r \in StreamReplies :
          GenerateContentStreamed(p, r)
     \/ /\ IsSome(stream)
        /\ Len(Unwrap(stream).received) < MaxChunks
        /\ \E c \in Chunks : StreamChunk(c)
     \/ StreamEnd

SpecStream == Init /\ [][NextStream]_vars

(***************************************************************************)
(* The properties.                                                         *)
(***************************************************************************)
\* what the transport call of a send_message step returns: generate_content
\* on the session's model with the history that ends in the new user turn
TransportResult(session, content, reply) ==
  generate_content(session.model, Append(session.history, content), reply, <<>>).result

\* the three ways a transport call fails
NetworkError(reply) == IsSome(reply.send_err) \/ IsSome(reply.read_err)
ErrorEnvelopeBody(reply) ==
  /\ ~NetworkError(reply)
  /\ from_str_GeminiResponse(reply.text).tag = "Err"
  /\ from_str_GeminiGenericErrorResponse(reply.text).tag = "Ok"
UnparsableBody(reply) ==
  /\ ~NetworkError(reply)
  /\ from_str_GeminiResponse(reply.text).tag = "Err"
  /\ from_str_GeminiGenericErrorResponse(reply.text).tag = "Err"

\* C1: a send_message(c) whose transport call succeeds with a response that
\* has a first candidate leaves the history as the old history, then c, then
\* the content of that first candidate, and returns the response.
C1_SuccessAppendsUserThenModel ==
  [][(call'.op = "send_message"
      /\ TransportResult(Unwrap(chat), call'.content, call'.reply).tag = "Ok"
      /\ TransportResult(Unwrap(chat), call'.content, call'.reply).val.candidates # <<>>)
     => LET resp == TransportResult(Unwrap(chat), call'.content, call'.reply).val IN
        /\ Unwrap(chat').history =
             Unwrap(chat).history \o <<call'.content, resp.candidates[1].content>>
        /\ ret' = Ok(resp)]_vars

\* C1 witness: a session that started with two turns has had a successful
\* exchange whose response held two different candidates
C1_Witness ==
  /\ call.op = "send_message"
  /\ ret.tag = "Ok"
  /\ Len(ret.val.candidates) = 2
  /\ ret.val.candidates[1] # ret.val.candidates[2]
  /\ Unwrap(chat).history = <<U_hi, M_hello, U_again, ret.val.candidates[1].content>>

RequestOps ==
  {"generate_content", "generate_content_with",
   "generate_content_streamed", "generate_content_streamed_with"}

\* C3: the request of a generate call has the prompt as contents and, field
\* by field, the override when the builder sets it and else the stored
\* default; without overrides every field is the stored default.
C3_RequestMergesOverrides ==
  [][call'.op \in RequestOps
     => /\ Len(sent') = 1
        /\ LET body == sent'[1].body
               cfg == call'.config
           IN /\ body.contents = call'.prompt
              /\ body.tools = IF IsSome(cfg.tools) THEN cfg.tools ELSE gm.tools
              /\ body.safety_settings =
                   IF IsSome(cfg.safety_settings) THEN cfg.safety_settings
                   ELSE gm.safety_settings
              /\ body.system_instruction =
                   IF IsSome(cfg.system_instruction) THEN cfg.system_instruction
                   ELSE gm.system_instruction
              /\ body.generation_config =
                   IF IsSome(cfg.generation_config) THEN cfg.generation_config
                   ELSE gm.generation_config
              /\ call'.op \in {"generate_content", "generate_content_streamed"}
                 => /\ body.tools = gm.tools
                    /\ body.safety_settings = gm.safety_settings
                    /\ body.system_instruction = gm.system_instruction
                    /\ body.generation_config = gm.generation_config]_vars

\* C3 witness: a model with tools and a system instruction stored, called
\* with a builder that overrides the tools only
C3_Witness ==
  /\ call.op = "generate_content_with"
  /\ IsSome(gm.tools) /\ IsSome(gm.system_instruction)
  /\ IsSome(call.config.tools) /\ ~IsSome(call.config.system_instruction)
  /\ call.config.tools # gm.tools
  /\ sent[1].body.tools = call.config.tools
  /\ sent[1].body.system_instruction = gm.system_instruction

\* the success schema of the entry point of the last step
SuccessParse(op, text) ==
  IF op = "embed_content" THEN from_str_EmbedContentResponse(text)
  ELSE from_str_GeminiResponse(text)

\* C4: for every body text generate_content_with or embed_content receives:
\* Ok with the payload when it parses as the success schema; else Err with
\* the mapped kind and the message of the envelope when it parses as the
\* error envelope; else Err of kind Other with the parse failure message.
C4_BodyDecisionTree ==
  (call.op \in {"generate_content_with", "embed_content"} /\ ~NetworkError(call.reply))
  => LET ok == SuccessParse(call.op, call.reply.text)
         env == from_str_GeminiGenericErrorResponse(call.reply.text)
     IN IF ok.tag = "Ok" THEN ret = ok
        ELSE IF env.tag = "Ok"
        THEN ret = Err([kind |-> GeminiError_from(env.val.error).kind,
                        message |-> env.val.error.message])
        ELSE ret = Err([kind |-> "Other", message |-> env.err])

\* the table of section 7
C5_Table(status) ==
  CASE status = "INVALID_ARGUMENT" -> "InvalidArgument"
    [] status = "FAILED_PRECONDITION" -> "UnsupportedCountry"
    [] status = "PERMISSION_DENIED" -> "PermissionDenied"
    [] status = "RESOURCE_EXHAUSTED" -> "ResourceExhausted"
    [] status = "INTERNAL" -> "Internal"
    [] status = "UNAVAILABLE" -> "ServiceUnavailable"
    [] OTHER -> "Other"

\* C5: whenever a reply is converted from its error envelope, the kind of
\* the error is the entry of the table for the status string, Other for any
\* string the table does not name, and the message is that of the envelope.
C5_ErrorMapping ==
  (call.op \in {"generate_content_with", "embed_content"}
   /\ ~NetworkError(call.reply)
   /\ SuccessParse(call.op, call.reply.text).tag = "Err"
   /\ from_str_GeminiGenericErrorResponse(call.reply.text).tag = "Ok")
  => LET e == from_str_GeminiGenericErrorResponse(call.reply.text).val.error IN
     /\ ret.tag = "Err"
     /\ ret.err.kind \in GeminiErrorKind
     /\ ret.err.kind = C5_Table(e.status)
     /\ ret.err.message = e.message

\* C5 witness: an envelope with a status the table does not name and an
\* empty message has been converted
C5_Witness ==
  /\ call.op = "generate_content_with"
  /\ call.reply.text = <<Obj(ErrorObj("WEIRD", ""))>>
  /\ ret = Err([kind |-> "Other", message |-> ""])

\* chunk i of a well framed body: one delimiter, "[" first and "," later,
\* then exactly one object that follows the response schema
IsResponseChunk(chunk, i) ==
  /\ chunk.read_err = None
  /\ chunk.utf8
  /\ Len(chunk.text) = 2
  /\ chunk.text[1] = Ch(IF i = 1 THEN "[" ELSE ",", 1)
  /\ chunk.text[2].tok = "object"
  /\ from_str_GeminiResponse(<<chunk.text[2]>>).tag = "Ok"

\* n response chunks and then the closing "]"
WellFramed(received) ==
  /\ Len(received) >= 1
  /\ received[Len(received)] = ClosingChunk
  /\ \A i \in 1..(Len(received) - 1) : IsResponseChunk(received[i], i)

\* C6: when the chunks delivered are n response chunks and then the closing
\* chunk, the stream has yielded exactly n items, item i the Ok parse of the
\* object of chunk i, and after the body ends nothing more.
C6_FramedBodyYieldsEachObject ==
  (IsSome(stream) /\ WellFramed(Unwrap(stream).received))
  => LET st == Unwrap(stream) IN
     /\ Len(st.items) = Len(st.received) - 1
     /\ \A i \in 1..Len(st.items) :
          /\ st.items[i].tag = "Ok"
          /\ st.items[i] = from_str_GeminiResponse(<<st.received[i].text[2]>>)

\* C6 witness: two different objects and the closing chunk have arrived,
\* two different items were yielded and the body has ended
C6_Witness ==
  /\ IsSome(stream)
  /\ Unwrap(stream).ended
  /\ WellFramed(Unwrap(stream).received)
  /\ Len(Unwrap(stream).received) = 3
  /\ Len(Unwrap(stream).items) = 2
  /\ Unwrap(stream).items[1] # Unwrap(stream).items[2]

\* C7: no entry point, and no poll of a stream, ever panics.
C7_NoPanic == ~panicked /\ ret.tag # "Panic"

NetworkOps == RequestOps \cup {"embed_content", "send_message"}

\* C8: every invocation of generate_content, generate_content_with, the
\* streamed variants, embed_content and send_message has put exactly one
\* request on the wire, whatever its outcome; a poll of a stream and
\* start_chat put none.
C8_OnePostPerCall ==
  /\ call.op \in NetworkOps => Len(sent) = 1
  /\ call.op \notin NetworkOps => Len(sent) = 0

\* C8 witness: a send_message whose send failed, with its one request
C8_Witness ==
  /\ call.op = "send_message"
  /\ IsSome(call.reply.send_err)
  /\ ret.tag = "Err"
  /\ Len(sent) = 1

\* C9: every Content in the contents of a generate request has a part.
C9_NoEmptyTurnSent ==
  \A i \in 1..Len(sent) :
    sent[i].url.suffix # "embedContent"
    => \A j \in 1..Len(sent[i].body.contents) :
         sent[i].body.contents[j].parts # <<>>

\* C10: no call changes the stored fields of the model, nor those of the
\* copy a session owns; start_chat hands the session an equal copy; and a
\* call without overrides builds its request from the stored defaults.
C10_ModelIsNeverMutated ==
  [][/\ gm' = gm
     /\ (IsSome(chat) /\ call'.op # "start_chat")
        => (IsSome(chat') /\ Unwrap(chat').model = Unwrap(chat).model)
     /\ call'.op = "start_chat" => Unwrap(chat').model = gm
     /\ call'.op \in {"generate_content", "generate_content_streamed"}
        => /\ sent'[1].body.tools = gm'.tools
           /\ sent'[1].body.safety_settings = gm'.safety_settings
           /\ sent'[1].body.system_instruction = gm'.system_instruction
           /\ sent'[1].body.generation_config = gm'.generation_config]_vars

\* C10 witness: a call overrode stored tools for its own request and the
\* model still holds the tools it was built with
C10_Witness ==
  /\ call.op \in {"generate_content_with", "generate_content_streamed_with"}
  /\ IsSome(call.config.tools)
  /\ sent[1].body.tools = call.config.tools
  /\ IsSome(gm.tools)
  /\ gm.tools # call.config.tools
  /\ gm \in {build(b) : b \in ModelBuilders}


(***************************************************************************)
(* C11: for every byte sequence d and MIME type t, a Content whose part   *)
(* is Data{data: d, mime_type: t}, serialized and then deserialized, is a  *)
(* Content whose part has the same bytes d and the same MIME type t.      *)
(***************************************************************************)
C11_DataRoundTrip ==
  call.op = "from_str" =>
    /\ ret.tag = "Ok"
    /\ ret.val.role = call.content.role
    /\ Len(ret.val.parts) = 1
    /\ ret.val.parts[1] = call.content.parts[1]

\* a part of four bytes (a full quad and a padded one) came back unchanged
C11_Witness ==
  /\ call.op = "from_str"
  /\ ret = Ok(call.content)
  /\ Len(call.content.parts[1].data) = MaxBytes
  /\ call.content.parts[1].data[1] = 255

(***************************************************************************)
(* C12: once a chunk whose remainder after its first character is empty   *)
(* has been received, the stream yields no item for that chunk and no     *)
(* item for any chunk that arrives after it.                              *)
(***************************************************************************)
\* a chunk of one single-byte character: all that is left of it is ""
EmptyRemainder(chunk) ==
  /\ chunk.read_err = None
  /\ chunk.utf8
  /\ Len(chunk.text) = 1
  /\ chunk.text[1].tok = "char"
  /\ chunk.text[1].width = 1

ClosingReceived(st) ==
  \E i \in 1..Len(st.received) : EmptyRemainder(st.received[i])

C12_NoItemAfterClosingChunk ==
  [][(IsSome(stream) /\ call'.op = "poll" /\ ClosingReceived(Unwrap(stream')))
       => Unwrap(stream').items = Unwrap(stream).items]_vars

(***************************************************************************)
(* C13: in the streaming decoder a chunk whose remainder parses as        *)
(* neither the success schema nor the error envelope yields exactly one   *)
(* Err item of kind Other, a chunk whose remainder is an error envelope   *)
(* yields one Err item of the mapped kind, and a read error of the        *)
(* transport yields exactly one Err item of kind Other; none of them ends *)
(* the stream: a later well formed chunk still yields its own item, after *)
(* the items already yielded.                                             *)
(***************************************************************************)
\* the chunk has a remainder: it was read, and its first character is one
\* byte wide and is not all of it
HasRemainder(chunk) ==
  /\ chunk.read_err = None
  /\ chunk.utf8
  /\ Len(chunk.text) > 1
  /\ chunk.text[1].tok = "char"
  /\ chunk.text[1].width = 1

Remainder(chunk) == Tail(chunk.text)

ParsesAsSuccess(text) == from_str_GeminiResponse(text).tag = "Ok"
ParsesAsEnvelope(text) == from_str_GeminiGenericErrorResponse(text).tag = "Ok"

\* what the claim says the chunk adds to the items, given its remainder
C13_Yields(chunk, before, after) ==
  /\ IsSome(chunk.read_err) =>
       /\ Len(after) = Len(before) + 1
       /\ SubSeq(after, 1, Len(before)) = before
       /\ after[Len(after)].tag = "Err"
       /\ after[Len(after)].err.kind = "Other"
  /\ (HasRemainder(chunk) /\ ParsesAsSuccess(Remainder(chunk))) =>
       after = Append(before, from_str_GeminiResponse(Remainder(chunk)))
  /\ (HasRemainder(chunk) /\ ~ParsesAsSuccess(Remainder(chunk))
        /\ ParsesAsEnvelope(Remainder(chunk))) =>
       after = Append(before,
                 Err(GeminiError_from(
                       from_str_GeminiGenericErrorResponse(Remainder(chunk)).val.error)))
  /\ (HasRemainder(chunk) /\ ~ParsesAsSuccess(Remainder(chunk))
        /\ ~ParsesAsEnvelope(Remainder(chunk))) =>
       /\ Len(after) = Len(before) + 1
       /\ SubSeq(after, 1, Len(before)) = before
       /\ after[Len(after)].tag = "Err"
       /\ after[Len(after)].err.kind = "Other"

C13_ErrorItemsDoNotEndStream ==
  [][(IsSome(stream) /\ call'.op = "poll")
       => /\ IsSome(stream')
          /\ ~Unwrap(stream').ended
          /\ C13_Yields(call'.chunk, Unwrap(stream).items, Unwrap(stream').items)]_vars

(***************************************************************************)
(* C14: the request send_message(c) hands to the transport has as         *)
(* contents the whole history of the session at that moment, every        *)
(* earlier entry in its order and c last, and it is built from the model  *)
(* the session holds, with no override.                                   *)
(***************************************************************************)
\* the request generate_content builds from a model alone
RequestOfModel(model, contents) ==
  [url |-> [model |-> GeminiModel_fmt(model.model), suffix |-> "generateContent",
            key |-> model.api_key],
   body |-> [contents |-> contents,
             tools |-> model.tools,
             safety_settings |-> model.safety_settings,
             system_instruction |-> model.system_instruction,
             generation_config |-> model.generation_config]]

C14_RequestCarriesWholeHistory ==
  [][call'.op = "send_message"
       => sent' = <<RequestOfModel(Unwrap(chat).model,
                                   Append(Unwrap(chat).history, call'.content))>>]_vars

\* C14 witness: a request of three turns, a user turn, a model turn and the
\* content just passed, sent by a model with stored defaults
C14_Witness ==
  /\ call.op = "send_message"
  /\ Len(sent) = 1
  /\ Len(sent[1].body.contents) = 3
  /\ sent[1].body.contents[1] = U_hi
  /\ sent[1].body.contents[2].role = "Model"
  /\ sent[1].body.contents[3] = call.content
  /\ IsSome(sent[1].body.system_instruction)
  /\ sent[1].url.model = "gemini-1.5-flash"

(***************************************************************************)
(* C15: the history of a ChatSession is append-only: every earlier        *)
(* history is a prefix of every later one; after n calls of send_message  *)
(* of which k succeeded its length is the starting length plus n plus k;  *)
(* and two consecutive user turns appear in it exactly where a call       *)
(* failed.                                                                *)
(***************************************************************************)
IsPrefix(a, b) == Len(a) <= Len(b) /\ SubSeq(b, 1, Len(a)) = a

Succeeded(log) == {j \in 1..Len(log.calls) : log.calls[j].ok}

LengthIsStartPlusCallsPlusSuccesses(h, log) ==
  Len(h) = log.start + Len(log.calls) + Cardinality(Succeeded(log))

TwoUserTurnsAt(h, i) == h[i].role = "User" /\ h[i + 1].role = "User"

FailedAt(log, i) == \E j \in 1..Len(log.calls) : log.calls[j].at = i /\ ~log.calls[j].ok

TwoUserTurnsExactlyWhereFailed(h, log) ==
  \A i \in 1..(Len(h) - 1) : TwoUserTurnsAt(h, i) <=> FailedAt(log, i)

C15_HistoryAppendOnly ==
  [][IsSome(chat') =>
       /\ (IsSome(chat) /\ call'.op # "start_chat")
            => IsPrefix(Unwrap(chat).history, Unwrap(chat').history)
       /\ LengthIsStartPlusCallsPlusSuccesses(Unwrap(chat').history, session_log')
       /\ TwoUserTurnsExactlyWhereFailed(Unwrap(chat').history, session_log')]_vars

\* the turns alternate as far as the caller and the server decide: the
\* starting history has no two user turns in a row and does not end with a
\* user turn, every content passed is a user turn, every reply a model turn
TurnsAlternate(h, log) ==
  /\ \A i \in 1..(log.start - 1) : ~TwoUserTurnsAt(h, i)
  /\ log.start > 0 => h[log.start].role = "Model"
  /\ \A j \in 1..Len(log.calls) :
       /\ h[log.calls[j].at].role = "User"
       /\ log.calls[j].ok => h[log.calls[j].at + 1].role = "Model"

\* C15 as amended: the same, the last part for sessions whose turns alternate
C15_HistoryAppendOnlyAmended ==
  [][IsSome(chat') =>
       /\ (IsSome(chat) /\ call'.op # "start_chat")
            => IsPrefix(Unwrap(chat).history, Unwrap(chat').history)
       /\ LengthIsStartPlusCallsPlusSuccesses(Unwrap(chat').history, session_log')
       /\ TurnsAlternate(Unwrap(chat').history, session_log')
            => TwoUserTurnsExactlyWhereFailed(Unwrap(chat').history, session_log')]_vars

\* C15 witness: a session started with two turns; its first call failed, its
\* second succeeded: five turns, two user turns in a row at the failure
C15_Witness ==
  /\ IsSome(chat)
  /\ session_log = [start |-> 2,
                    calls |-> <<[at |-> 3, ok |-> FALSE], [at |-> 4, ok |-> TRUE]>>]
  /\ Len(Unwrap(chat).history) = 5
  /\ TurnsAlternate(Unwrap(chat).history, session_log)
  /\ TwoUserTurnsAt(Unwrap(chat).history, 3)
  /\ ~TwoUserTurnsAt(Unwrap(chat).history, 1)

====
